---------------------------- MODULE Spec2Model ----------------------------
(***************************************************************************)
(* Model of the badge flashing daemon (scripts/daemon.py): the udev        *)
(* watcher, the discovery loop of run(), and the handler each device       *)
(* event is dispatched to on a thread of its own.                          *)
(*                                                                         *)
(* A string the code parses is the sequence of its characters; a string    *)
(* the code only passes on (a device path, a model name) is a sequence of  *)
(* one token.  A udev property mapping is a function whose DOMAIN is the   *)
(* set of keys the device has, so a missing key is a key outside DOMAIN.   *)
(***************************************************************************)
EXTENDS Integers, Sequences, FiniteSets, TLC

(***************************************************************************)
(* Bounds of the model.                                                    *)
(***************************************************************************)
\* Device events the OS delivers when several devices are on the bench.
MaxEvents == 2
\* esptool.DEFAULT_CONNECT_ATTEMPTS: set by the collaborator, not by this
\* repository; the handler only reads it.
DEFAULT_CONNECT_ATTEMPTS == 3
\* Lines of output of the flasher's --info run.
MaxLines == 1

(***************************************************************************)
(* Logging levels (logging.DEBUG .. logging.ERROR and the two added ones). *)
(***************************************************************************)
DEBUG == 10
INFO == 20
WARNING == 30
ERROR == 40
DETECT == ERROR + 1
SUCCESS == ERROR + 2

(***************************************************************************)
(* Exceptions.  An exception value carries its class and the number of the *)
(* collaborator call that raised it (0: raised by the handler's own code), *)
(* which tells two exceptions of one class apart.                          *)
(***************************************************************************)
NoExc == [cls |-> "None", at |-> 0]

Exc(cls, at) == [cls |-> cls, at |-> at]

\* The base class of each exception class the code names or meets.
Base(cls) ==
  CASE cls = "NotSupportedError" -> "FatalError"
    [] cls = "FatalError" -> "RuntimeError"
    [] cls = "SerialException" -> "OSError"
    [] cls = "CalledProcessError" -> "SubprocessError"
    [] cls = "TimeoutExpired" -> "SubprocessError"
    [] cls = "UnicodeDecodeError" -> "ValueError"
    [] cls = "KeyError" -> "LookupError"
    [] OTHER -> "Exception"

RECURSIVE IsSubclass(_, _)
IsSubclass(cls, parent) ==
  IF cls = parent THEN TRUE
  ELSE IF cls = "Exception" THEN FALSE
  ELSE IsSubclass(Base(cls), parent)

\* `except (A, B, ...)`: whether the clause catches an exception of class cls.
Catches(clause, cls) == \E c \in clause : IsSubclass(cls, c)

(***************************************************************************)
(* int(s, base) of Python, on a sequence of characters: surrounding white  *)
(* space is stripped, a sign and (base 16) a 0x prefix are accepted,       *)
(* single underscores may separate digits; anything else is a ValueError.  *)
(***************************************************************************)
Whitespace == {" ", "\t", "\n"}

DigitValue(c) ==
  CASE c = "0" -> 0 [] c = "1" -> 1 [] c = "2" -> 2 [] c = "3" -> 3
    [] c = "4" -> 4 [] c = "5" -> 5 [] c = "6" -> 6 [] c = "7" -> 7
    [] c = "8" -> 8 [] c = "9" -> 9
    [] c \in {"a", "A"} -> 10 [] c \in {"b", "B"} -> 11
    [] c \in {"c", "C"} -> 12 [] c \in {"d", "D"} -> 13
    [] c \in {"e", "E"} -> 14 [] c \in {"f", "F"} -> 15
    [] OTHER -> 99

IsDigit(c, base) == DigitValue(c) < base

RECURSIVE LStrip(_)
LStrip(s) ==
  IF s /= <<>> /\ Head(s) \in Whitespace THEN LStrip(Tail(s)) ELSE s

RECURSIVE RStrip(_)
RStrip(s) ==
  IF s /= <<>> /\ s[Len(s)] \in Whitespace
  THEN RStrip(SubSeq(s, 1, Len(s) - 1)) ELSE s

Strip(s) == RStrip(LStrip(s))

\* The digits of a literal body, underscores removed; <<>> when malformed.
RECURSIVE Digits(_, _, _)
Digits(s, base, afterDigit) ==
  IF s = <<>> THEN <<>>
  ELSE IF Head(s) = "_"
       THEN IF afterDigit /\ Len(s) > 1 /\ IsDigit(s[2], base)
            THEN Digits(Tail(s), base, FALSE) ELSE <<>>
  ELSE IF IsDigit(Head(s), base)
       THEN IF Len(s) = 1 THEN <<Head(s)>>
            ELSE LET rest == Digits(Tail(s), base, TRUE)
                 IN IF rest = <<>> THEN <<>> ELSE <<Head(s)>> \o rest
  ELSE <<>>

RECURSIVE Magnitude(_, _, _)
Magnitude(ds, base, acc) ==
  IF ds = <<>> THEN acc
  ELSE Magnitude(Tail(ds), base, acc * base + DigitValue(Head(ds)))

ParseInt(s, base) ==
  LET t == Strip(s)
      signed == t /= <<>> /\ Head(t) \in {"+", "-"}
      u == IF signed THEN Tail(t) ELSE t
      prefixed == base = 16 /\ Len(u) >= 2 /\ u[1] = "0" /\ u[2] \in {"x", "X"}
      v == IF prefixed THEN SubSeq(u, 3, Len(u)) ELSE u
      \* after a prefix one underscore may come before the first digit
      ds == Digits(v, base, prefixed)
  IN IF ds = <<>> THEN [ok |-> FALSE, val |-> 0]
     ELSE [ok |-> TRUE,
           val |-> IF signed /\ Head(t) = "-"
                   THEN 0 - Magnitude(ds, base, 0) ELSE Magnitude(ds, base, 0)]

\* int(s, 0): the base is read off the prefix (0x, 0o, 0b), decimal
\* otherwise; a decimal literal with a leading zero must be all zeros.
ParseIntAuto(s) ==
  LET t == Strip(s)
      signed == t /= <<>> /\ Head(t) \in {"+", "-"}
      u == IF signed THEN Tail(t) ELSE t
      base == IF Len(u) >= 2 /\ u[1] = "0"
              THEN CASE u[2] \in {"x", "X"} -> 16
                     [] u[2] \in {"o", "O"} -> 8
                     [] u[2] \in {"b", "B"} -> 2
                     [] OTHER -> 10
              ELSE 10
      prefixed == base /= 10
      v == IF prefixed THEN SubSeq(u, 3, Len(u)) ELSE u
      ds == Digits(v, base, prefixed)
      mag == Magnitude(ds, base, 0)
  IN IF ds = <<>> \/ (~prefixed /\ Head(ds) = "0" /\ mag /= 0)
     THEN [ok |-> FALSE, val |-> 0]
     ELSE [ok |-> TRUE, val |-> IF signed /\ Head(t) = "-" THEN 0 - mag ELSE mag]

(***************************************************************************)
(* The udev property mappings a device can have.                           *)
(***************************************************************************)
Absent == <<"<absent>">>

VendorIds ==
  { <<"2", "3", "4", "1">>, <<"1", "0", "c", "4">>, <<"1", "0", "C", "4">>,
    <<"1", "a", "8", "6">>, <<"z", "z">>, Absent }

ModelIds ==
  { <<"0", "0", "4", "f">>, <<"8", "0", "4", "f">>, <<"e", "a", "7", "0">>,
    <<"0", "x", "4", "f">>, <<"6", "0", "0", "1">>, <<>>, Absent }

DevNames == { <<"/dev/ttyUSB0">>, Absent }

InterfaceNums == { <<"0", "0">>, <<"0", "1">>, <<"n", "a">>, Absent }

Models == { <<"CP2105_Dual_USB_to_UART_Bridge_Controller">>, Absent }

Buses == { <<"u", "s", "b">>, <<"p", "c", "i">>, Absent }

USB == <<"u", "s", "b">>

Keys ==
  {"ID_BUS", "ID_VENDOR_ID", "ID_MODEL_ID", "DEVNAME", "ID_USB_INTERFACE_NUM",
   "ID_MODEL"}

\* The mapping holding exactly the keys of r whose value is not Absent.
Properties(r) == [key \in {x \in Keys : r[x] /= Absent} |-> r[key]]

MkProps(bus, vid, pid, dev, ifn, mdl) ==
  Properties([ID_BUS |-> bus, ID_VENDOR_ID |-> vid, ID_MODEL_ID |-> pid,
              DEVNAME |-> dev, ID_USB_INTERFACE_NUM |-> ifn, ID_MODEL |-> mdl])

AllProps ==
  { MkProps(bus, vid, pid, dev, ifn, mdl) :
      bus \in Buses, vid \in VendorIds, pid \in ModelIds, dev \in DevNames,
      ifn \in InterfaceNums, mdl \in Models }

Has(m, key) == key \in DOMAIN m

(***************************************************************************)
(* The handler registry.                                                   *)
(***************************************************************************)
Hex2341 == 9025
Hex10c4 == 4292
Hex004f == 79
Hex804f == 32847
Hexea70 == 60016

DEVICE_TYPES ==
  ( <<Hex2341, Hex004f>> :> "handle_arduino_prog" ) @@
  ( <<Hex2341, Hex804f>> :> "handle_arduino_live" ) @@
  ( <<Hex10c4, Hexea70>> :> "handle_cp2105" )

\* dict.get(key, default)
Get(dict, key, default) == IF key \in DOMAIN dict THEN dict[key] ELSE default

(***************************************************************************)
(* The output of the flasher's --info run: a sequence of lines, a line a   *)
(* sequence of tokens (":" and " " are tokens of their own).               *)
(***************************************************************************)
OutputLines ==
  { <<"Device", " ", ":", " ", "ATSAMD21G18A">>,
    <<"Chip ID", ":", "10010005">>,
    <<"Version", ":", " ", "v1.7">>,
    <<"Address", ":", "0x2000", ":", "8192">>,
    <<"bossac">> }

RECURSIVE SeqsUpTo(_, _)
SeqsUpTo(S, n) ==
  IF n = 0 THEN { <<>> }
  ELSE LET shorter == SeqsUpTo(S, n - 1)
       IN shorter \cup { Append(q, x) : q \in shorter, x \in S }

Outputs == SeqsUpTo(OutputLines, MaxLines)

\* str.split(sep): the fields between the separators, as a sequence.
RECURSIVE SplitFrom(_, _, _)
SplitFrom(s, sep, cur) ==
  IF s = <<>> THEN << cur >>
  ELSE IF Head(s) = sep THEN << cur >> \o SplitFrom(Tail(s), sep, <<>>)
  ELSE SplitFrom(Tail(s), sep, Append(cur, Head(s)))

Split(s, sep) == SplitFrom(s, sep, <<>>)

(***************************************************************************)
(* The ESP flasher arguments (flasher_args.json): flash_files maps an      *)
(* offset, written as text, to an image; app names the application image.  *)
(* A dict is a sequence of <<key, value>> pairs, in insertion order.       *)
(***************************************************************************)
FlasherArgsJson ==
  [flash_files |-> << << <<"0", "x", "1", "0", "0", "0">>, "bootloader.bin" >>,
                      << <<"3", "2", "7", "6", "8">>, "partition-table.bin" >>,
                      << <<"0", "x", "1", "0", "0", "0", "0">>, "badge.bin" >> >>,
   app |-> [offset |-> <<"0", "x", "1", "0", "0", "0", "0">>, file |-> "badge.bin"]]

\* No ESP_IMAGE_OVERRIDE in the environment.
None == "None"

\* pathlib.Path(name) and a plain str.
Path(name) == [type |-> "Path", name |-> name]

Str(name) == [type |-> "str", name |-> name]

\* for k, v in d.items(): d[k] = ESP_JSON.parent / v
Canonical(d) == [j \in DOMAIN d |-> << d[j][1], Path(d[j][2]) >>]

\* d[key] = value: the entry is replaced where it is, or added at the end.
SetItem(d, key, value) ==
  IF \E j \in DOMAIN d : d[j][1] = key
  THEN [j \in DOMAIN d |-> IF d[j][1] = key THEN <<key, value>> ELSE d[j]]
  ELSE Append(d, <<key, value>>)

(***************************************************************************)
(* The environment: which collaborator calls can fail and how, which       *)
(* devices the OS reports, how many device events it delivers, and what    *)
(* the flasher's --info run prints.                                        *)
(***************************************************************************)
AllFaults ==
  { <<"serial_for_url", "SerialException">>, <<"serial_for_url", "ValueError">>,
    <<"detect_chip", "FatalError">>, <<"detect_chip", "OSError">>,
    <<"detect_chip", "termios.error">>, <<"detect_chip", "SerialException">>,
    <<"detect_chip", "ValueError">>,
    <<"chip_id", "NotSupportedError">>, <<"chip_id", "FatalError">>,
    <<"read_mac", "FatalError">>,
    <<"run_stub", "FatalError">>, <<"run_stub", "SerialException">>,
    <<"run_stub", "OSError">>,
    <<"change_baud", "FatalError">>,
    <<"open", "OSError">>,
    <<"write_flash", "FatalError">>, <<"write_flash", "SerialException">>,
    <<"write_flash", "OSError">>,
    <<"check_output", "CalledProcessError">>, <<"check_output", "TimeoutExpired">>,
    <<"check_output", "OSError">>,
    <<"check_call", "CalledProcessError">>, <<"check_call", "TimeoutExpired">>,
    <<"check_call", "OSError">> }

BenchDevName == <<"/dev/ttyUSB0">>

BenchModel == <<"CP2105_Dual_USB_to_UART_Bridge_Controller">>

BenchProps ==
  { MkProps(USB, <<"1", "0", "c", "4">>, <<"e", "a", "7", "0">>, BenchDevName,
            <<"0", "0">>, BenchModel),
    MkProps(USB, <<"2", "3", "4", "1">>, <<"0", "0", "4", "f">>, BenchDevName,
            Absent, BenchModel),
    MkProps(USB, <<"1", "a", "8", "6">>, <<"6", "0", "0", "1">>, BenchDevName,
            Absent, Absent),
    MkProps(USB, Absent, <<"6", "0", "0", "1">>, BenchDevName, Absent, Absent),
    MkProps(USB, <<"z", "z">>, <<"6", "0", "0", "1">>, BenchDevName, Absent,
            Absent),
    MkProps(<<"p", "c", "i">>, <<"1", "0", "c", "4">>, <<"e", "a", "7", "0">>,
            BenchDevName, <<"0", "0">>, BenchModel),
    MkProps(Absent, <<"1", "0", "c", "4">>, <<"e", "a", "7", "0">>,
            BenchDevName, <<"0", "0">>, BenchModel) }

BenchFaults ==
  { <<"detect_chip", "OSError">>, <<"run_stub", "FatalError">>,
    <<"check_output", "TimeoutExpired">> }

BenchOutputs == { << <<"Device", " ", ":", " ", "ATSAMD21G18A">> >> }

\* The image ESP_IMAGE_OVERRIDE names, when it is set.
OverrideImage == "custom.bin"

\* The module-level code that loads ESP_FLASH_ARGS, given ESP_IMAGE: the
\* file names under flash_files are made paths, then the application image
\* is overridden.
LoadFlashArgs(image) ==
  LET loaded == [FlasherArgsJson EXCEPT !.flash_files = Canonical(@)]
  IN IF image /= None
     THEN [loaded EXCEPT !.app.file = image,
                         !.flash_files = SetItem(@, loaded.app.offset, Str(image))]
     ELSE loaded

\* ESP_FLASH_ARGS for each value of ESP_IMAGE, computed once.
Loaded == [image \in {None, OverrideImage} |-> LoadFlashArgs(image)]

\* What (int(offset, 0), path.open("rb")) raises of itself for an entry of
\* flash_files: ValueError for an offset that is no number, AttributeError
\* for a str, which has no open(); "ok" when it raises nothing.
EntryError(entry) ==
  IF ~ParseIntAuto(entry[1]).ok THEN "ValueError"
  ELSE IF entry[2].type /= "Path" THEN "AttributeError"
  ELSE "ok"

\* The first entry of files that raises of itself, 0 when there is none.
FirstBad(files) ==
  LET bad == { j \in DOMAIN files : EntryError(files[j]) /= "ok" }
  IN IF bad = {} THEN 0 ELSE CHOOSE j \in bad : \A x \in bad : j <= x

\* tuple((int(offset, 0), path.open("rb")) for offset, path in ...)
Pairs(files) ==
  [j \in DOMAIN files |-> << ParseIntAuto(files[j][1]).val, files[j][2].name >>]

\* The building of the pairs for each value of ESP_IMAGE, computed once:
\* the first entry that raises of itself, what it raises, and the pairs.
Built ==
  [image \in DOMAIN Loaded |->
     LET files == Loaded[image].flash_files
         bad == FirstBad(files)
     IN [bad |-> bad,
         error |-> IF bad = 0 THEN "ok" ELSE EntryError(files[bad]),
         pairs |-> Pairs(files)]]

AnyFault == <<"any", "any">>

\* The worlds the daemon is run in: one device alone with every failure
\* possible, with and without ESP_IMAGE_OVERRIDE, or several device events
\* and one kind of failure.
Worlds ==
  { [devices |-> "any", fault |-> AnyFault, image |-> i] :
      i \in {None, OverrideImage} } \cup
  { [devices |-> "bench", fault |-> f, image |-> None] : f \in BenchFaults }

(***************************************************************************)
(* State.                                                                  *)
(***************************************************************************)
VARIABLES
  world,    \* the environment, fixed from the start
  phase,    \* where watch_udev is: "snapshot" (listing the devices already
            \* attached) or "monitor" (polling for hotplug notifications)
  loop,     \* where the main thread is: "watch" (in watch_udev, waiting for
            \* it to yield), "body" (in the try block of run(), holding
            \* props), "crashed", "interrupted"
  props,    \* the mapping run() was last handed
  mainexc,  \* the exception that ended run(), if any
  mainlog,  \* what the main thread logged
  polled,   \* device events taken from udev so far
  workers   \* the handler threads started so far, in order of start

vars == <<world, phase, loop, props, mainexc, mainlog, polled, workers>>

\* A call record: a collaborator call, what it was made on, how it ended
\* ("ok" or the class it raised) and, for the --info run, what it printed.
Call(fn, on, out, ret) == [fn |-> fn, on |-> on, out |-> out, ret |-> ret]

\* A log record: logger.log(level, msg, ...) with the arguments that matter.
LogRec(level, msg, n, exc, text) ==
  [level |-> level, msg |-> msg, n |-> n, exc |-> exc, text |-> text]

Log(level, msg) == LogRec(level, msg, 0, NoExc, <<>>)

\* threading.Thread(target=handler, kwargs=props).start()
NewWorker(handler, kwargs) ==
  [handler |-> handler, k |-> kwargs, pc |-> "start", i |-> 0,
   stashed_exc |-> NoExc, port |-> "none", esp |-> "none",
   addr_fileobj_pairs |-> <<>>,
   calls |-> <<>>, log |-> <<>>, raised |-> NoExc]

\* What the world allows.
Faults == IF world.fault = AnyFault THEN AllFaults ELSE {world.fault}

Devices == IF world.devices = "any" THEN AllProps ELSE BenchProps

InfoOutputs == IF world.devices = "any" THEN Outputs ELSE BenchOutputs

Hotplugs == IF world.devices = "any" THEN 1 ELSE MaxEvents

\* ESP_IMAGE = os.environ.get("ESP_IMAGE_OVERRIDE")
ESP_IMAGE == world.image

\* ESP_FLASH_ARGS once the module is loaded.
ESP_FLASH_ARGS == Loaded[ESP_IMAGE]

\* What a collaborator call can do in this world: return, or raise a class.
Outcomes(site) == {"ok"} \cup { f[2] : f \in { g \in Faults : g[1] = site } }

(***************************************************************************)
(* The main thread: watch_udev() and the loop of run().                    *)
(***************************************************************************)
\* No mapping yet.
NoProps == [key \in {} |-> Absent]

Init ==
  /\ world \in Worlds
  /\ phase = "snapshot"
  /\ loop = "watch"
  /\ props = NoProps
  /\ mainexc = NoExc
  /\ mainlog = <<>>
  /\ polled = 0
  /\ workers = <<>>

\* Select with the key built in the wrong order.
SelectSwappedKey(vid, pid) == Get(DEVICE_TYPES, <<pid, vid>>, "handle_unknown")

\* The handler run() selects for a parsed (vendor, product) pair.
Select(vid, pid) == Get(DEVICE_TYPES, <<vid, pid>>, "handle_unknown")

\* The main thread dies of an exception nothing catches.
Crash(cls) ==
  /\ loop' = "crashed"
  /\ mainexc' = Exc(cls, 0)
  /\ UNCHANGED <<mainlog, workers>>

\* The `except KeyError` branch of run().
DropEvent ==
  /\ mainlog' = mainlog \o
       << Log(WARNING, "Failed to handle USB serial device"),
          LogRec(INFO, "Device properties:\n%s", 0, NoExc, <<props>>) >>
  /\ loop' = "watch"
  /\ UNCHANGED <<mainexc, workers>>

\* StartThread skipping a device path a thread was already started for.
StartThreadDeduplicating(handler, kwargs) ==
  /\ workers' =
       IF \E w \in DOMAIN workers :
            /\ Has(kwargs, "DEVNAME") /\ Has(workers[w].k, "DEVNAME")
            /\ workers[w].k["DEVNAME"] = kwargs["DEVNAME"]
       THEN workers
       ELSE Append(workers, NewWorker(handler, kwargs))
  /\ loop' = "watch"
  /\ UNCHANGED <<mainexc, mainlog>>

\* Thread(...).start() followed by a join(): the loop waits for the handler.
StartThreadAndJoin(handler, kwargs) ==
  /\ workers' = Append(workers, NewWorker(handler, kwargs))
  /\ loop' = "join"
  /\ UNCHANGED <<mainexc, mainlog>>

\* threading.Thread(target=handler, kwargs=props).start(): the thread is
\* started and the loop asks watch_udev for the next mapping.
StartThread(handler, kwargs) ==
  /\ workers' = Append(workers, NewWorker(handler, kwargs))
  /\ loop' = "watch"
  /\ UNCHANGED <<mainexc, mainlog>>

\* int(s, 16) on the id strings udev can report, computed once.
ParseHex == [s \in VendorIds \cup ModelIds |-> ParseInt(s, 16)]

\* One pass of the body of the loop of run().
RunBody ==
  /\ loop = "body"
  /\ IF ~Has(props, "ID_VENDOR_ID") THEN DropEvent
     ELSE LET vid == ParseHex[props["ID_VENDOR_ID"]]
          IN IF ~vid.ok THEN Crash("ValueError")
             ELSE IF ~Has(props, "ID_MODEL_ID") THEN DropEvent
             ELSE LET pid == ParseHex[props["ID_MODEL_ID"]]
                  IN IF ~pid.ok THEN Crash("ValueError")
                     ELSE StartThread(Select(vid.val, pid.val), props)
  /\ UNCHANGED <<world, phase, props, polled>>

\* watch_udev yields the mapping p to the loop of run().
Yield(p) ==
  /\ props' = p
  /\ loop' = "body"
  /\ UNCHANGED <<mainexc, mainlog, workers>>

\* watch_udev yields a device that was attached before the daemon started;
\* udev has matched ID_BUS="usb" itself.
Enumerate ==
  /\ loop = "watch"
  /\ phase = "snapshot"
  /\ polled < Hotplugs
  /\ \E p \in Devices :
       /\ Has(p, "ID_BUS")
       /\ p["ID_BUS"] = USB
       /\ Yield(p)
  /\ polled' = polled + 1
  /\ UNCHANGED <<world, phase>>

\* The snapshot is exhausted: watch_udev goes on to poll the monitor.
StartMonitor ==
  /\ loop = "watch"
  /\ phase = "snapshot"
  /\ phase' = "monitor"
  /\ UNCHANGED <<world, loop, props, mainexc, mainlog, polled, workers>>

\* The `else` branch of the filter of watch_udev.
IgnoreNotification ==
  /\ mainlog' = Append(mainlog, Log(DEBUG, "Ignoring non-USB serial device"))
  /\ UNCHANGED <<loop, props, mainexc, workers>>

\* dev.action of a notification.
Actions == {"add", "remove"}

\* What watch_udev does with the notification that the device with
\* properties p was added or removed: it yields p or ignores it; reading a
\* missing ID_BUS raises inside the generator, out of run().
Deliver(action, p) ==
  IF action /= "add" THEN IgnoreNotification
  ELSE IF ~Has(p, "ID_BUS") THEN Crash("KeyError") /\ UNCHANGED props
  ELSE IF p["ID_BUS"] = USB THEN Yield(p)
  ELSE IgnoreNotification

\* One pass of the loop over mon.poll().
Poll ==
  /\ loop = "watch"
  /\ phase = "monitor"
  /\ polled < Hotplugs
  /\ \E action \in Actions, p \in Devices : Deliver(action, p)
  /\ polled' = polled + 1
  /\ UNCHANGED <<world, phase>>

\* Interrupt with the threads daemon threads: they end with the main thread,
\* where they are, and their ports go with the process.
InterruptCancels ==
  /\ loop = "watch"
  /\ loop' = "interrupted"
  /\ mainlog' = Append(mainlog,
       Log(WARNING, "Exiting: Waiting for threads to end (^C to force exit)"))
  /\ workers' = [w \in DOMAIN workers |->
                   [workers[w] EXCEPT !.pc = "done",
                                      !.port = IF @ = "open" THEN "closed" ELSE @]]
  /\ UNCHANGED <<world, phase, props, mainexc, polled>>

\* ^C or sys.exit reaches the main block while run() waits for a device.
Interrupt ==
  /\ loop = "watch"
  /\ loop' = "interrupted"
  /\ mainlog' = Append(mainlog,
       Log(WARNING, "Exiting: Waiting for threads to end (^C to force exit)"))
  /\ UNCHANGED <<world, phase, props, mainexc, polled, workers>>

(***************************************************************************)
(* The handlers.  Each action is one step of the thread w: the code up to  *)
(* and including its next blocking call, and what follows from the call's  *)
(* outcome up to the next one.                                             *)
(***************************************************************************)
Threads == DOMAIN workers

Running(w) == workers[w].pc /= "done"

\* Becomes with an exception that ends a thread raised in the main thread
\* as well.
BecomesPropagating(w, r) ==
  /\ workers' = [workers EXCEPT ![w] = r]
  /\ IF r.raised /= NoExc
     THEN loop' = "crashed" /\ mainexc' = r.raised
     ELSE UNCHANGED <<loop, mainexc>>
  /\ UNCHANGED <<world, phase, props, mainlog, polled>>

\* Becomes with the serial port a module-level name: what one thread does
\* to its port shows in every thread that has a port.
BecomesSharingPort(w, r) ==
  /\ workers' = [v \in DOMAIN workers |->
                   IF v = w THEN r
                   ELSE IF workers[v].port /= "none" /\ r.port /= "none"
                        THEN [workers[v] EXCEPT !.port = r.port]
                        ELSE workers[v]]
  /\ UNCHANGED <<world, phase, loop, props, mainexc, mainlog, polled>>

\* The thread w goes on as r; nothing else changes.
Becomes(w, r) ==
  /\ workers' = [workers EXCEPT ![w] = r]
  /\ UNCHANGED <<world, phase, loop, props, mainexc, mainlog, polled>>

Logged(r, entries) == [r EXCEPT !.log = @ \o entries]

Called(r, fn, on, out) == [r EXCEPT !.calls = Append(@, Call(fn, on, out, <<>>))]

Printed(r, fn, on, out, ret) ==
  [r EXCEPT !.calls = Append(@, Call(fn, on, out, IF out = "ok" THEN ret ELSE <<>>))]

\* `return`
Return(r) == [r EXCEPT !.pc = "done"]

\* An exception no clause of the handler catches ends the thread.
Raise(r, e) == [r EXCEPT !.pc = "done", !.raised = e]

Goto(r, pc) == [r EXCEPT !.pc = pc]

\* The lookup k["DEVNAME"] never failing (k.get("DEVNAME")).
NoDevNameNever(k) == FALSE

\* The lookup k["DEVNAME"] of a flashing handler raises KeyError.
NoDevName(k) == ~Has(k, "DEVNAME")

handle_unknown(w) ==
  LET r == workers[w]
  IN /\ r.handler = "handle_unknown"
     /\ r.pc = "start"
     /\ Becomes(w,
          IF Has(r.k, "ID_MODEL")
          THEN Return(Logged(r, << LogRec(WARNING, "Ignoring unknown device: %s",
                                          0, NoExc, <<r.k["ID_MODEL"]>>) >>))
          ELSE Raise(r, Exc("KeyError", 0)))

handle_arduino_live(w) ==
  LET r == workers[w]
  IN /\ r.handler = "handle_arduino_live"
     /\ r.pc = "start"
     /\ Becomes(w, Return(Logged(r,
          << Log(WARNING, "Arduino detected but it needs to be put in program mode"),
             Log(INFO, "Press the SAM RST button twice quickly"),
             Log(INFO, "LED6 should glow blue once in programming mode") >>)))

\* The loop over output.splitlines() of handle_arduino_prog: what it logs.
\* A line that does not unpack into two fields is a ValueError, passed over.
RECURSIVE InfoLogs(_)
InfoLogs(output) ==
  IF output = <<>> THEN <<>>
  ELSE LET fields == Split(Head(output), ":")
           key == Strip(fields[1])
           val == Strip(fields[2])
       IN (IF Len(fields) = 2 /\ key \in { <<"Device">>, <<"Chip ID">> }
           THEN << LogRec(DEBUG, "Arduino at %r has %s: %r", 0, NoExc,
                          <<key, val>>) >>
           ELSE <<>>) \o InfoLogs(Tail(output))

\* AfterInfo without the `return` of its except clause.
AfterInfoFallsThrough(r, out, output) ==
  IF out = "ok"
  THEN Goto(Logged(r, InfoLogs(output) \o
         << Log(INFO, "Flashing application image to Arduino at %r") >>), "flash")
  ELSE IF Catches({"CalledProcessError", "TimeoutExpired"}, out)
  THEN Goto(Logged(r,
         << LogRec(ERROR, "Failed to get device info for Arduino at %r: %s", 0,
                   Exc(out, Len(r.calls)), <<>>),
            Log(INFO, "Flashing application image to Arduino at %r") >>), "flash")
  ELSE Raise(r, Exc(out, Len(r.calls)))

\* What handle_arduino_prog does with the outcome of the --info run.
AfterInfo(r, out, output) ==
  IF out = "ok"
  THEN Goto(Logged(r, InfoLogs(output) \o
         << Log(INFO, "Flashing application image to Arduino at %r") >>), "flash")
  ELSE IF Catches({"CalledProcessError", "TimeoutExpired"}, out)
  THEN Return(Logged(r,
         << LogRec(ERROR, "Failed to get device info for Arduino at %r: %s", 0,
                   Exc(out, Len(r.calls)), <<>>) >>))
  ELSE Raise(r, Exc(out, Len(r.calls)))

\* handle_arduino_prog up to the end of the --info run.
handle_arduino_prog_info(w) ==
  LET r == workers[w]
  IN /\ r.handler = "handle_arduino_prog"
     /\ r.pc = "start"
     /\ IF NoDevName(r.k)
        THEN Becomes(w, Return(Logged(r,
               << Log(ERROR, "Unable to get device name for Arduino serial") >>)))
        ELSE \E out \in Outcomes("check_output"), output \in InfoOutputs :
               Becomes(w, AfterInfo(
                 Printed(Logged(r,
                   << Log(DETECT, "Detected programmable Arduino at %r"),
                      Log(INFO, "Getting chip information") >>),
                   "check_output", "--info", out, output),
                 out, output))

\* AfterFlash with the success line after the try statement, not in its else.
AfterFlashAlwaysSuccess(r, out) ==
  IF out = "ok"
  THEN Return(Logged(r, << Log(SUCCESS, "Finished flashing Arduino at %r") >>))
  ELSE IF Catches({"CalledProcessError", "TimeoutExpired"}, out)
  THEN Return(Logged(r,
         << LogRec(ERROR, "Failed to flash Arduino at %r: %s", 0,
                   Exc(out, Len(r.calls)), <<>>),
            Log(SUCCESS, "Finished flashing Arduino at %r") >>))
  ELSE Raise(r, Exc(out, Len(r.calls)))

\* What handle_arduino_prog does with the outcome of the flash run.
AfterFlash(r, out) ==
  IF out = "ok"
  THEN Return(Logged(r, << Log(SUCCESS, "Finished flashing Arduino at %r") >>))
  ELSE IF Catches({"CalledProcessError", "TimeoutExpired"}, out)
  THEN Return(Logged(r,
         << LogRec(ERROR, "Failed to flash Arduino at %r: %s", 0,
                   Exc(out, Len(r.calls)), <<>>) >>))
  ELSE Raise(r, Exc(out, Len(r.calls)))

\* handle_arduino_prog from the flash run on.
handle_arduino_prog_flash(w) ==
  LET r == workers[w]
  IN /\ r.handler = "handle_arduino_prog"
     /\ r.pc = "flash"
     /\ \E out \in Outcomes("check_call") :
          Becomes(w, AfterFlash(
            Called(r, "check_call", "--erase --write --verify --boot=1", out), out))

\* handle_cp2105 without its try/finally: nothing closes the port.
FinallyMissing(r) == r

\* The `finally: port.close()` of handle_cp2105.
Finally(r) == Called([r EXCEPT !.port = "closed"], "close", "port", "ok")

\* The test of the interface number letting interface 1 through.
AcceptedInterfacesBoth == {0, 1}

\* The interfaces of the bridge chip that are wired to an ESP.
AcceptedInterfaces == {0}

\* What handle_cp2105 does with the outcome of serial.serial_for_url.
AfterOpen(r, out) ==
  IF out = "ok" THEN [Goto(r, "detect") EXCEPT !.port = "open", !.i = 0]
  ELSE IF Catches({"SerialException"}, out)
  THEN Return(Logged(r,
         << LogRec(ERROR, "Failed to open serial port for ESP at %r: %s", 0,
                   Exc(out, Len(r.calls)), <<>>) >>))
  ELSE Raise(r, Exc(out, Len(r.calls)))

\* handle_cp2105 up to the opening of the serial port.
handle_cp2105_open(w) ==
  LET r == workers[w]
      int_num == ParseInt(r.k["ID_USB_INTERFACE_NUM"], 10)
  IN /\ r.handler = "handle_cp2105"
     /\ r.pc = "start"
     /\ IF ~Has(r.k, "ID_USB_INTERFACE_NUM")
        THEN Becomes(w, Raise(r, Exc("KeyError", 0)))
        ELSE IF ~int_num.ok
        THEN Becomes(w, Raise(r, Exc("ValueError", 0)))
        ELSE IF int_num.val \notin AcceptedInterfaces
        THEN Becomes(w, Return(Logged(r,
               << Log(DEBUG, "Skipping unattached CP2015 UART interface") >>)))
        ELSE IF NoDevName(r.k)
        THEN Becomes(w, Return(Logged(r,
               << Log(ERROR, "Unable to get device name for CP2105 serial") >>)))
        ELSE \E out \in Outcomes("serial_for_url") :
               Becomes(w, AfterOpen(
                 Called(Logged(r,
                   << Log(INFO, "Detected CP2015 USB-UART at %r"),
                      Log(INFO, "Attempting to scan for ESP device") >>),
                   "serial_for_url", "DEVNAME", out),
                 out))

\* DetectMiss with one pass too many (range(N + 1)).
DetectMissOffByOne(r, e) ==
  LET missed == Logged([r EXCEPT !.stashed_exc = e],
        << LogRec(WARNING, "Unable to detect ESP device at %r (%i/%i)",
                  r.i + 1, NoExc, <<>>) >> \o
        (IF r.i = 0
         THEN << Log(INFO, "Hold down ESP BOOT button then press ESP EN to reset") >>
         ELSE <<>>))
  IN IF r.i + 1 < DEFAULT_CONNECT_ATTEMPTS + 1
     THEN [missed EXCEPT !.i = r.i + 1]
     ELSE Return(Finally(Logged(missed,
            << LogRec(ERROR, "Failed to detect ESP device at %r: %s", 0,
                      missed.stashed_exc, <<>>) >>)))

\* DetectMiss stashing only the first exception (`if stashed_exc is None`).
DetectMissKeepsFirst(r, e) ==
  LET missed == Logged(
        [r EXCEPT !.stashed_exc = IF r.stashed_exc = NoExc THEN e ELSE @],
        << LogRec(WARNING, "Unable to detect ESP device at %r (%i/%i)",
                  r.i + 1, NoExc, <<>>) >> \o
        (IF r.i = 0
         THEN << Log(INFO, "Hold down ESP BOOT button then press ESP EN to reset") >>
         ELSE <<>>))
  IN IF r.i + 1 < DEFAULT_CONNECT_ATTEMPTS
     THEN [missed EXCEPT !.i = r.i + 1]
     ELSE Return(Finally(Logged(missed,
            << LogRec(ERROR, "Failed to detect ESP device at %r: %s", 0,
                      missed.stashed_exc, <<>>) >>)))

\* DetectMiss giving the hint at every miss (no `if i == 0`).
DetectMissAlwaysHints(r, e) ==
  LET missed == Logged([r EXCEPT !.stashed_exc = e],
        << LogRec(WARNING, "Unable to detect ESP device at %r (%i/%i)",
                  r.i + 1, NoExc, <<>>),
           Log(INFO, "Hold down ESP BOOT button then press ESP EN to reset") >>)
  IN IF r.i + 1 < DEFAULT_CONNECT_ATTEMPTS
     THEN [missed EXCEPT !.i = r.i + 1]
     ELSE Return(Finally(Logged(missed,
            << LogRec(ERROR, "Failed to detect ESP device at %r: %s", 0,
                      missed.stashed_exc, <<>>) >>)))

\* The `except esptool.FatalError` branch of the detection loop, and the
\* loop's `else` when that was the last pass.
DetectMiss(r, e) ==
  LET missed == Logged([r EXCEPT !.stashed_exc = e],
        << LogRec(WARNING, "Unable to detect ESP device at %r (%i/%i)",
                  r.i + 1, NoExc, <<>>) >> \o
        (IF r.i = 0
         THEN << Log(INFO, "Hold down ESP BOOT button then press ESP EN to reset") >>
         ELSE <<>>))
  IN IF r.i + 1 < DEFAULT_CONNECT_ATTEMPTS
     THEN [missed EXCEPT !.i = r.i + 1]
     ELSE Return(Finally(Logged(missed,
            << LogRec(ERROR, "Failed to detect ESP device at %r: %s", 0,
                      missed.stashed_exc, <<>>) >>)))

\* AfterDetect without the `break` of the loop's else clause.
AfterDetectNoBreak(r, out) ==
  IF out = "ok"
  THEN IF r.i + 1 < DEFAULT_CONNECT_ATTEMPTS
       THEN [r EXCEPT !.esp = "rom", !.i = r.i + 1]
       ELSE Goto(Logged([r EXCEPT !.esp = "rom"],
              << Log(DETECT, "Detected ESP device at %r") >>), "chip_id")
  ELSE IF Catches({"FatalError"}, out) THEN DetectMiss(r, Exc(out, Len(r.calls)))
  ELSE IF Catches({"OSError", "termios.error", "SerialException"}, out)
  THEN Return(Finally(Logged(r,
         << LogRec(ERROR, "Serial connection error for ESP device at %r: %s", 0,
                   Exc(out, Len(r.calls)), <<>>),
            Log(WARNING, "Was the device unplugged?") >>)))
  ELSE Raise(Finally(r), Exc(out, Len(r.calls)))

\* AfterDetect without the `return` of the I/O clause: the loop goes on to
\* its next pass, or to its else clause after the last one.
AfterDetectIOContinues(r, out) ==
  IF out = "ok"
  THEN Goto(Logged([r EXCEPT !.esp = "rom"],
         << Log(DETECT, "Detected ESP device at %r") >>), "chip_id")
  ELSE IF Catches({"FatalError"}, out) THEN DetectMiss(r, Exc(out, Len(r.calls)))
  ELSE IF Catches({"OSError", "termios.error", "SerialException"}, out)
  THEN LET logged == Logged(r,
             << LogRec(ERROR, "Serial connection error for ESP device at %r: %s", 0,
                       Exc(out, Len(r.calls)), <<>>),
                Log(WARNING, "Was the device unplugged?") >>)
       IN IF r.i + 1 < DEFAULT_CONNECT_ATTEMPTS
          THEN [logged EXCEPT !.i = r.i + 1]
          ELSE Return(Finally(Logged(logged,
                 << LogRec(ERROR, "Failed to detect ESP device at %r: %s", 0,
                           logged.stashed_exc, <<>>) >>)))
  ELSE Raise(Finally(r), Exc(out, Len(r.calls)))

\* One pass of the detection loop, given the outcome of detect_chip.
AfterDetect(r, out) ==
  IF out = "ok"
  THEN Goto(Logged([r EXCEPT !.esp = "rom"],
         << Log(DETECT, "Detected ESP device at %r") >>), "chip_id")
  ELSE IF Catches({"FatalError"}, out) THEN DetectMiss(r, Exc(out, Len(r.calls)))
  ELSE IF Catches({"OSError", "termios.error", "SerialException"}, out)
  THEN Return(Finally(Logged(r,
         << LogRec(ERROR, "Serial connection error for ESP device at %r: %s", 0,
                   Exc(out, Len(r.calls)), <<>>),
            Log(WARNING, "Was the device unplugged?") >>)))
  ELSE Raise(Finally(r), Exc(out, Len(r.calls)))

handle_cp2105_detect(w) ==
  LET r == workers[w]
  IN /\ r.handler = "handle_cp2105"
     /\ r.pc = "detect"
     /\ \E out \in Outcomes("detect_chip") :
          Becomes(w, AfterDetect(Called(r, "detect_chip", "port", out), out))

\* esp.chip_id(), with the fallback to esp.read_mac() left to the next step.
AfterChipId(r, out) ==
  IF out = "ok"
  THEN Goto(Logged(r, << Log(DEBUG, "%r: Chip ID is %r") >>), "run_stub")
  ELSE IF Catches({"NotSupportedError"}, out)
  THEN Goto(Logged(r,
         << Log(DEBUG, "Chip ID is not supported - falling back to MAC") >>),
         "read_mac")
  ELSE Raise(Finally(r), Exc(out, Len(r.calls)))

handle_cp2105_chip_id(w) ==
  LET r == workers[w]
  IN /\ r.handler = "handle_cp2105"
     /\ r.pc = "chip_id"
     /\ \E out \in Outcomes("chip_id") :
          Becomes(w, AfterChipId(Called(r, "chip_id", r.esp, out), out))

AfterReadMac(r, out) ==
  IF out = "ok"
  THEN Goto(Logged(r, << Log(DEBUG, "%r: Chip ID is %r") >>), "run_stub")
  ELSE Raise(Finally(r), Exc(out, Len(r.calls)))

handle_cp2105_read_mac(w) ==
  LET r == workers[w]
  IN /\ r.handler = "handle_cp2105"
     /\ r.pc = "read_mac"
     /\ \E out \in Outcomes("read_mac") :
          Becomes(w, AfterReadMac(Called(r, "read_mac", r.esp, out), out))

\* AfterRunStub with a `return` in its except clause.
AfterRunStubReturns(r, out) ==
  IF out = "ok"
  THEN Goto(Logged([r EXCEPT !.esp = "stub"],
         << Log(INFO, "Download stub running on ESP at %r") >>), "change_baud")
  ELSE IF Catches({"FatalError", "SerialException"}, out)
  THEN Return(Finally(Logged(r,
         << LogRec(ERROR, "Unable to run stub on ESP at %r: %s", 0,
                   Exc(out, Len(r.calls)), <<>>) >>)))
  ELSE Raise(Finally(r), Exc(out, Len(r.calls)))

\* esp = esp.run_stub(): the name is rebound only when the call returns.
AfterRunStub(r, out) ==
  IF out = "ok"
  THEN Goto(Logged([r EXCEPT !.esp = "stub"],
         << Log(INFO, "Download stub running on ESP at %r") >>), "change_baud")
  ELSE IF Catches({"FatalError", "SerialException"}, out)
  THEN Goto(Logged(r,
         << LogRec(ERROR, "Unable to run stub on ESP at %r: %s", 0,
                   Exc(out, Len(r.calls)), <<>>),
            Log(INFO, "Download stub running on ESP at %r") >>), "change_baud")
  ELSE Raise(Finally(r), Exc(out, Len(r.calls)))

handle_cp2105_run_stub(w) ==
  LET r == workers[w]
  IN /\ r.handler = "handle_cp2105"
     /\ r.pc = "run_stub"
     /\ \E out \in Outcomes("run_stub") :
          Becomes(w, AfterRunStub(Called(r, "run_stub", r.esp, out), out))

AfterChangeBaud(r, out) ==
  IF out = "ok" THEN Goto(r, "open_images")
  ELSE Raise(Finally(r), Exc(out, Len(r.calls)))

handle_cp2105_change_baud(w) ==
  LET r == workers[w]
  IN /\ r.handler = "handle_cp2105"
     /\ r.pc = "change_baud"
     /\ \E out \in Outcomes("change_baud") :
          Becomes(w, AfterChangeBaud(Called(r, "change_baud", r.esp, out), out))

\* How the building of the pairs can end: an entry before the first bad one
\* fails to open, or the first bad one raises, or every entry is opened.
OpenOutcomes ==
  LET built == Built[ESP_IMAGE]
  IN IF built.bad = 0 THEN Outcomes("open")
     ELSE (IF built.bad > 1 THEN Outcomes("open") \ {"ok"} ELSE {}) \cup
          { built.error }

\* The tuple of (offset, open file) pairs built from ESP_FLASH_ARGS.
AfterOpenImages(r, out) ==
  IF out = "ok"
  THEN Goto(Logged([r EXCEPT !.addr_fileobj_pairs = Built[ESP_IMAGE].pairs],
         << Log(INFO, "Flashing application image to ESP at %r") >>), "write_flash")
  ELSE Raise(Finally(r), Exc(out, Len(r.calls)))

handle_cp2105_open_images(w) ==
  LET r == workers[w]
  IN /\ r.handler = "handle_cp2105"
     /\ r.pc = "open_images"
     /\ \E out \in OpenOutcomes :
          Becomes(w, AfterOpenImages(Called(r, "open", "flash_files", out), out))

AfterWriteFlash(r, out) ==
  IF out = "ok"
  THEN Return(Finally(Logged(r,
         << Log(SUCCESS, "Finished flashing ESP at %r") >>)))
  ELSE IF Catches({"FatalError", "SerialException"}, out)
  THEN Return(Finally(Logged(r,
         << LogRec(ERROR, "Failed to write flash on ESP at %r: %s", 0,
                   Exc(out, Len(r.calls)), <<>>) >>)))
  ELSE Raise(Finally(r), Exc(out, Len(r.calls)))

handle_cp2105_write_flash(w) ==
  LET r == workers[w]
  IN /\ r.handler = "handle_cp2105"
     /\ r.pc = "write_flash"
     /\ \E out \in Outcomes("write_flash") :
          Becomes(w, AfterWriteFlash(Called(r, "write_flash", r.esp, out), out))

(***************************************************************************)
(* The daemon.                                                             *)
(***************************************************************************)
Next ==
  \/ Enumerate
  \/ StartMonitor
  \/ Poll
  \/ RunBody
  \/ Interrupt
  \/ \E w \in Threads : handle_unknown(w)
  \/ \E w \in Threads : handle_arduino_live(w)
  \/ \E w \in Threads : handle_arduino_prog_info(w)
  \/ \E w \in Threads : handle_arduino_prog_flash(w)
  \/ \E w \in Threads : handle_cp2105_open(w)
  \/ \E w \in Threads : handle_cp2105_detect(w)
  \/ \E w \in Threads : handle_cp2105_chip_id(w)
  \/ \E w \in Threads : handle_cp2105_read_mac(w)
  \/ \E w \in Threads : handle_cp2105_run_stub(w)
  \/ \E w \in Threads : handle_cp2105_change_baud(w)
  \/ \E w \in Threads : handle_cp2105_open_images(w)
  \/ \E w \in Threads : handle_cp2105_write_flash(w)

Spec == Init /\ [][Next]_vars

(***************************************************************************)
(* What a thread has done, read off its record.                            *)
(***************************************************************************)
CallsOf(r, fn) == { j \in DOMAIN r.calls : r.calls[j].fn = fn }

NCalls(r, fn) == Cardinality(CallsOf(r, fn))

LogsOf(r, level, msg) ==
  { j \in DOMAIN r.log : r.log[j].level = level /\ r.log[j].msg = msg }

LogsAt(r, level) == { j \in DOMAIN r.log : r.log[j].level = level }

FnSeq(r) == [j \in DOMAIN r.calls |-> r.calls[j].fn]

Bridge(r) == r.handler = "handle_cp2105"

(***************************************************************************)
(* C1.  Every device event whose vendor and product id both parse as       *)
(* hexadecimal starts a thread running exactly the handler registered for  *)
(* the parsed pair (0x2341/0x004f: handle_arduino_prog, 0x2341/0x804f:     *)
(* handle_arduino_live, 0x10c4/0xea70: handle_cp2105), handle_unknown for  *)
(* every other pair, and the main thread goes on without an exception.     *)
(***************************************************************************)
RegisteredFor(v, p) ==
  IF v = 9025 /\ p = 79 THEN "handle_arduino_prog"          \* 0x2341, 0x004f
  ELSE IF v = 9025 /\ p = 32847 THEN "handle_arduino_live"  \* 0x2341, 0x804f
  ELSE IF v = 4292 /\ p = 60016 THEN "handle_cp2105"        \* 0x10c4, 0xea70
  ELSE "handle_unknown"

BothIdsParse(m) ==
  /\ Has(m, "ID_VENDOR_ID") /\ ParseInt(m["ID_VENDOR_ID"], 16).ok
  /\ Has(m, "ID_MODEL_ID") /\ ParseInt(m["ID_MODEL_ID"], 16).ok

ExpectedHandler(m) ==
  RegisteredFor(ParseInt(m["ID_VENDOR_ID"], 16).val,
                ParseInt(m["ID_MODEL_ID"], 16).val)

C1_SelectsRegisteredHandler ==
  [][ /\ (loop = "body" /\ loop' /= "body" /\ BothIdsParse(props)) =>
           /\ workers' = Append(workers,
                           NewWorker(ExpectedHandler(props), props))
           /\ loop' = "watch"
           /\ mainexc' = NoExc
      /\ Len(workers') > Len(workers) =>
           LET new == workers'[Len(workers')]
           IN /\ new.k = props
              /\ BothIdsParse(new.k)
              /\ new.handler = ExpectedHandler(new.k)
    ]_vars

\* Two threads, one for a registered pair and one for an unregistered one.
C1_Witness ==
  /\ Len(workers) = 2
  /\ workers[1].handler = "handle_cp2105"
  /\ workers[1].k["ID_VENDOR_ID"] = <<"1", "0", "c", "4">>
  /\ workers[1].k["ID_MODEL_ID"] = <<"e", "a", "7", "0">>
  /\ workers[2].handler = "handle_unknown"
  /\ workers[2].k["ID_VENDOR_ID"] = <<"1", "a", "8", "6">>
  /\ loop = "watch"

(***************************************************************************)
(* C2.  A device event whose vendor id or product id is missing or is not  *)
(* hexadecimal starts no thread, is logged (a warning and the properties)  *)
(* and dropped, and the loop of run() goes on.                             *)
(***************************************************************************)
Malformed(m) == ~BothIdsParse(m)

C2_MalformedEventDropped ==
  [][ (loop = "body" /\ loop' /= "body" /\ Malformed(props)) =>
        /\ workers' = workers
        /\ loop' = "watch"
        /\ mainexc' = NoExc
        /\ mainlog' = mainlog \o
             << Log(WARNING, "Failed to handle USB serial device"),
                LogRec(INFO, "Device properties:\n%s", 0, NoExc, <<props>>) >>
    ]_vars

(***************************************************************************)
(* C3.  A run of handle_cp2105 that opened the serial port has closed it   *)
(* when the run ends, whichever way it ends (an exception nothing catches  *)
(* included); the port is closed once, by the last call of the run, and    *)
(* is open until then.                                                     *)
(***************************************************************************)
Opened(r) ==
  \E j \in CallsOf(r, "serial_for_url") : r.calls[j].out = "ok"

C3_PortClosedOnEveryExit ==
  \A w \in Threads :
    LET r == workers[w]
    IN Bridge(r) =>
         /\ (Opened(r) /\ r.pc = "done") =>
              r.port = "closed" /\ r.calls[Len(r.calls)].fn = "close"
         /\ (Opened(r) /\ r.pc /= "done") => r.port = "open"
         /\ ~Opened(r) => r.port = "none"
         /\ \A j \in CallsOf(r, "close") : j = Len(r.calls) /\ r.pc = "done"

\* A run ended by the exception change_baud raised, its port closed.
C3_Witness ==
  \E w \in Threads :
    LET r == workers[w]
    IN /\ Bridge(r) /\ r.pc = "done" /\ r.port = "closed"
       /\ r.raised.cls = "FatalError"
       /\ Len(r.calls) >= 2
       /\ r.calls[Len(r.calls) - 1].fn = "change_baud"
       /\ r.calls[Len(r.calls) - 1].out = "FatalError"

(***************************************************************************)
(* C4.  The detection loop makes at most DEFAULT_CONNECT_ATTEMPTS calls of *)
(* detect_chip; when every call returned, missed (FatalError) or failed    *)
(* with an I/O error, the loop ends in exactly one of success, fatal abort *)
(* and exhaustion, and exhaustion takes exactly that many calls.           *)
(***************************************************************************)
MissClasses == {"FatalError", "NotSupportedError"}

IOClasses == {"OSError", "termios.error", "SerialException"}

Attempts(r) == NCalls(r, "detect_chip")

Succeeded(r) == LogsOf(r, DETECT, "Detected ESP device at %r") /= {}

Aborted(r) ==
  LogsOf(r, ERROR, "Serial connection error for ESP device at %r: %s") /= {}

Exhausted(r) == LogsOf(r, ERROR, "Failed to detect ESP device at %r: %s") /= {}

Truths(bs) == Cardinality({ j \in DOMAIN bs : bs[j] })

C4_DetectionBounded ==
  \A w \in Threads :
    LET r == workers[w]
    IN Bridge(r) =>
         /\ Attempts(r) <= DEFAULT_CONNECT_ATTEMPTS
         /\ r.pc = "detect" =>
              /\ Attempts(r) < DEFAULT_CONNECT_ATTEMPTS
              /\ Truths(<<Succeeded(r), Aborted(r), Exhausted(r)>>) = 0
         /\ ( /\ Attempts(r) > 0
              /\ r.pc /= "detect"
              /\ \A j \in CallsOf(r, "detect_chip") :
                   r.calls[j].out \in {"ok"} \cup MissClasses \cup IOClasses ) =>
              Truths(<<Succeeded(r), Aborted(r), Exhausted(r)>>) = 1
         /\ Exhausted(r) => Attempts(r) = DEFAULT_CONNECT_ATTEMPTS
         /\ Succeeded(r) => \E j \in CallsOf(r, "detect_chip") : r.calls[j].out = "ok"

\* Every attempt but the last missed and the last one hit an I/O error.
C4_Witness ==
  \E w \in Threads :
    LET r == workers[w]
    IN /\ Bridge(r) /\ r.pc = "done"
       /\ Attempts(r) = DEFAULT_CONNECT_ATTEMPTS
       /\ Aborted(r)
       /\ ~Exhausted(r) /\ ~Succeeded(r)

(***************************************************************************)
(* C5.  When every call of detect_chip missed, the run made exactly        *)
(* DEFAULT_CONNECT_ATTEMPTS calls, logged one error, which carries the     *)
(* exception of the last miss, made no call on the chip after detection,   *)
(* and ended with the port closed.                                         *)
(***************************************************************************)
AllMissed(r) ==
  /\ Bridge(r) /\ r.pc = "done"
  /\ Attempts(r) > 0
  /\ \A j \in CallsOf(r, "detect_chip") : r.calls[j].out \in MissClasses

PostDetection == {"chip_id", "read_mac", "run_stub", "change_baud", "open", "write_flash"}

LastOf(S) == CHOOSE j \in S : \A x \in S : x <= j

C5_ExhaustionReported ==
  \A w \in Threads :
    LET r == workers[w]
        lastMiss == LastOf(CallsOf(r, "detect_chip"))
    IN AllMissed(r) =>
         /\ Attempts(r) = DEFAULT_CONNECT_ATTEMPTS
         /\ Cardinality(LogsAt(r, ERROR)) = 1
         /\ \A j \in LogsAt(r, ERROR) :
              /\ r.log[j].msg = "Failed to detect ESP device at %r: %s"
              /\ r.log[j].exc = [cls |-> r.calls[lastMiss].out, at |-> lastMiss]
              /\ j = Len(r.log)
         /\ \A j \in DOMAIN r.calls : r.calls[j].fn \notin PostDetection
         /\ r.port = "closed"
         /\ r.calls[Len(r.calls)].fn = "close"
         /\ r.raised = NoExc

C5_Witness ==
  \E w \in Threads :
    /\ AllMissed(workers[w])
    /\ Attempts(workers[w]) = DEFAULT_CONNECT_ATTEMPTS
    /\ workers[w].port = "closed"

(***************************************************************************)
(* C6.  When the --info run of handle_arduino_prog timed out or exited     *)
(* non-zero, the handler has ended with an error logged and the flash run  *)
(* is never made.                                                          *)
(***************************************************************************)
InfoFailed(r) ==
  /\ r.handler = "handle_arduino_prog"
  /\ \E j \in CallsOf(r, "check_output") :
       r.calls[j].out \in {"CalledProcessError", "TimeoutExpired"}

C6_NoFlashAfterFailedInfo ==
  \A w \in Threads :
    LET r == workers[w]
    IN InfoFailed(r) =>
         /\ r.pc = "done"
         /\ NCalls(r, "check_call") = 0
         /\ LogsAt(r, SUCCESS) = {}
         /\ LogsOf(r, ERROR, "Failed to get device info for Arduino at %r: %s") /= {}
         /\ r.raised = NoExc

C6_Witness ==
  \E w \in Threads :
    /\ InfoFailed(workers[w])
    /\ workers[w].calls[1].out = "TimeoutExpired"
    /\ workers[w].pc = "done"

(***************************************************************************)
(* C7.  The loop of run() never waits on a thread: while the main thread   *)
(* has not ended and udev has a device event left, the main thread can     *)
(* take its next step whatever the threads are doing, and every thread     *)
(* that has not ended can take its next step whatever the others and the   *)
(* main thread are doing.                                                  *)
(***************************************************************************)
MainStep == Enumerate \/ Poll \/ RunBody

ThreadStep(w) ==
  \/ handle_unknown(w)
  \/ handle_arduino_live(w)
  \/ handle_arduino_prog_info(w)
  \/ handle_arduino_prog_flash(w)
  \/ handle_cp2105_open(w)
  \/ handle_cp2105_detect(w)
  \/ handle_cp2105_chip_id(w)
  \/ handle_cp2105_read_mac(w)
  \/ handle_cp2105_run_stub(w)
  \/ handle_cp2105_change_baud(w)
  \/ handle_cp2105_open_images(w)
  \/ handle_cp2105_write_flash(w)

MainEnded == loop \in {"crashed", "interrupted"}

C7_LoopNeverWaitsOnThreads ==
  /\ (~MainEnded /\ (polled < Hotplugs \/ loop /= "watch")) => ENABLED MainStep
  /\ \A w \in Threads : Running(w) => ENABLED ThreadStep(w)

\* The first thread still holds its port open in the detection loop, the
\* second was started after it and has flashed its device, and the main
\* thread is back in watch_udev.
C7_Witness ==
  /\ Len(workers) >= 2
  /\ workers[1].pc = "detect" /\ workers[1].port = "open"
  /\ workers[2].pc = "done" /\ LogsAt(workers[2], SUCCESS) /= {}
  /\ loop = "watch"

(***************************************************************************)
(* C8.  A thread of handle_cp2105 whose interface number is not 0 makes no *)
(* call at all (it opens no port, detects nothing, flashes nothing), logs  *)
(* nothing above debug level and ends at its first step.                   *)
(***************************************************************************)
OtherInterface(r) ==
  /\ Bridge(r)
  /\ Has(r.k, "ID_USB_INTERFACE_NUM")
  /\ ParseInt(r.k["ID_USB_INTERFACE_NUM"], 10).ok
  /\ ParseInt(r.k["ID_USB_INTERFACE_NUM"], 10).val /= 0

C8_OtherInterfaceSkipped ==
  \A w \in Threads :
    LET r == workers[w]
    IN OtherInterface(r) =>
         /\ r.calls = <<>>
         /\ r.port = "none"
         /\ \A j \in DOMAIN r.log : r.log[j].level <= DEBUG
         /\ r.raised = NoExc
         /\ r.pc \in {"start", "done"}
         /\ r.pc = "start" => r.log = <<>>
         /\ r.pc = "done" =>
              r.log = << Log(DEBUG, "Skipping unattached CP2015 UART interface") >>

C8_Witness ==
  \E w \in Threads :
    /\ OtherInterface(workers[w])
    /\ workers[w].k["ID_USB_INTERFACE_NUM"] = <<"0", "1">>
    /\ Has(workers[w].k, "DEVNAME")
    /\ workers[w].pc = "done"

(***************************************************************************)
(* C9.  A run of handle_cp2105 in which detect_chip missed k-1 times and   *)
(* then returned, and every later call returned, made exactly the calls    *)
(* serial_for_url, k times detect_chip, chip_id, run_stub, change_baud,    *)
(* the opening of the images, write_flash, close, in that order; its last  *)
(* log line is its one success line and its port is closed.                *)
(***************************************************************************)
CleanRun(r) ==
  /\ Bridge(r) /\ r.pc = "done"
  /\ \E j \in CallsOf(r, "detect_chip") : r.calls[j].out = "ok"
  /\ \A j \in DOMAIN r.calls :
       \/ r.calls[j].out = "ok"
       \/ r.calls[j].fn = "detect_chip" /\ r.calls[j].out \in MissClasses

C9_DetectThenFlashOnce ==
  \A w \in Threads :
    LET r == workers[w]
        k == Attempts(r)
    IN CleanRun(r) =>
         /\ k <= DEFAULT_CONNECT_ATTEMPTS
         /\ FnSeq(r) = <<"serial_for_url">> \o [j \in 1..k |-> "detect_chip"] \o
              <<"chip_id", "run_stub", "change_baud", "open", "write_flash", "close">>
         /\ \A j \in 2..k : r.calls[j].out \in MissClasses
         /\ r.calls[k + 1].out = "ok"
         /\ r.calls[k + 2].on = "rom" /\ r.calls[k + 3].on = "rom"
         /\ r.calls[k + 4].on = "stub" /\ r.calls[k + 6].on = "stub"
         /\ Cardinality(LogsAt(r, SUCCESS)) = 1
         /\ r.log[Len(r.log)] = Log(SUCCESS, "Finished flashing ESP at %r")
         /\ Cardinality(LogsOf(r, WARNING,
              "Unable to detect ESP device at %r (%i/%i)")) = k - 1
         /\ LogsAt(r, ERROR) = {}
         /\ r.port = "closed"
         /\ r.raised = NoExc

\* Detection succeeded on the second attempt.
C9_Witness ==
  \E w \in Threads :
    /\ CleanRun(workers[w])
    /\ Attempts(workers[w]) = 2
    /\ workers[w].k["ID_USB_INTERFACE_NUM"] = <<"0", "0">>

(***************************************************************************)
(* C10.  A run of handle_arduino_prog that has a device path makes the     *)
(* --info run at most once, then the flash run at most once and only after *)
(* the --info run returned; once the --info run returned the flash run is  *)
(* made; a success line is logged exactly when both runs returned,         *)
(* whatever the --info run printed.                                        *)
(***************************************************************************)
Programmer(r) == r.handler = "handle_arduino_prog" /\ Has(r.k, "DEVNAME")

C10_InfoThenFlash ==
  \A w \in Threads :
    LET r == workers[w]
    IN Programmer(r) =>
         /\ FnSeq(r) \in { <<>>, <<"check_output">>, <<"check_output", "check_call">> }
         /\ r.pc = "start" <=> r.calls = <<>>
         /\ r.pc = "flash" => Len(r.calls) = 1
         /\ Len(r.calls) = 2 => r.calls[1].out = "ok" /\ r.pc = "done"
         /\ (Len(r.calls) = 1 /\ r.calls[1].out = "ok") => r.pc = "flash"
         /\ Cardinality(LogsAt(r, SUCCESS)) <= 1
         /\ LogsAt(r, SUCCESS) /= {} <=>
              (Len(r.calls) = 2 /\ r.calls[1].out = "ok" /\ r.calls[2].out = "ok")
         /\ (r.pc = "done" /\ r.raised = NoExc /\ LogsAt(r, SUCCESS) = {}) =>
              LogsAt(r, ERROR) /= {}

\* Both runs returned and the success line is logged, although the --info
\* run printed a line that is not of the form key: value.
C10_Witness ==
  \E w \in Threads :
    LET r == workers[w]
    IN /\ Programmer(r) /\ r.pc = "done"
       /\ LogsAt(r, SUCCESS) /= {}
       /\ r.calls[1].ret = << <<"bossac">> >>

(***************************************************************************)
(* C11.  A step in which a thread ends in failure (an error it logged, or  *)
(* an exception none of its clauses catches, such as the KeyError of a     *)
(* property the handler reads) changes that thread only: the main thread,  *)
(* its log and its place in watch_udev and run() are as before, no thread  *)
(* is added or removed and every other thread is as before; and a device   *)
(* event dispatched while a failed thread exists starts its thread.        *)
(***************************************************************************)
Failed(r) ==
  r.pc = "done" /\ (r.raised /= NoExc \/ LogsAt(r, ERROR) /= {})

MainState == <<phase, loop, props, mainexc, mainlog, polled>>

C11_FailureContained ==
  [][ /\ \A w \in Threads :
           (Running(w) /\ Failed(workers'[w])) =>
             /\ MainState' = MainState
             /\ DOMAIN workers' = Threads
             /\ \A v \in Threads \ {w} : workers'[v] = workers[v]
      /\ ( /\ loop = "body" /\ loop' /= "body"
           /\ \E w \in Threads : Failed(workers[w])
           /\ BothIdsParse(props) ) =>
             /\ Len(workers') = Len(workers) + 1
             /\ loop' = "watch"
             /\ \A v \in Threads : workers'[v] = workers[v]
    ]_vars

\* The first thread died of the KeyError of handle_unknown, the second has
\* flashed its device and the main thread is in watch_udev.
C11_Witness ==
  /\ Len(workers) = 2
  /\ workers[1].handler = "handle_unknown"
  /\ workers[1].raised.cls = "KeyError"
  /\ workers[2].pc = "done" /\ LogsAt(workers[2], SUCCESS) /= {}
  /\ loop = "watch"

(***************************************************************************)
(* C12.  Once the snapshot is listed, a pass of the loop over mon.poll()   *)
(* hands run() the properties of the notification exactly when the         *)
(* notification is an "add" whose ID_BUS is "usb"; for every other         *)
(* notification (a removal, an ID_BUS that is not "usb" or is missing) it  *)
(* hands run() nothing, starts no thread, raises nothing and leaves the    *)
(* main thread in watch_udev, waiting for the next notification.           *)
(***************************************************************************)
UsbAdd(action, p) == action = "add" /\ Has(p, "ID_BUS") /\ p["ID_BUS"] = USB

C12_OnlyUsbAddsDelivered ==
  [][ (loop = "watch" /\ phase = "monitor" /\ polled' /= polled) =>
        \A action \in Actions, p \in Devices :
          Deliver(action, p) =>
            /\ workers' = workers
            /\ mainexc' = NoExc
            /\ IF UsbAdd(action, p)
               THEN loop' = "body" /\ props' = p
               ELSE loop' = "watch" /\ props' = props
    ]_vars

(***************************************************************************)
(* C13.  The step in which KeyboardInterrupt or SystemExit reaches the     *)
(* main block leaves every thread as it is (none is ended, no port is      *)
(* closed); from then on the main thread does nothing more and no thread   *)
(* is started, while every thread that has not ended can still take its    *)
(* next step, so that it runs to its own end.                              *)
(***************************************************************************)
Interrupted == loop = "interrupted"

C13_ShutdownLeavesThreadsRunning ==
  /\ loop = "watch" =>
       /\ ENABLED (Interrupt /\ workers' = workers)
       /\ ~ ENABLED (Interrupt /\ workers' /= workers)
  /\ Interrupted =>
       /\ ~ ENABLED (Next /\ (MainState' /= MainState \/ DOMAIN workers' /= Threads))
       /\ \A w \in Threads : Running(w) => ENABLED ThreadStep(w)

\* After the shutdown the first thread is still in its detection loop with
\* its port open, and the second has run to its end.
C13_Witness ==
  /\ Interrupted
  /\ Len(workers) = 2
  /\ workers[1].pc = "detect" /\ workers[1].port = "open"
  /\ workers[2].pc = "done"

(***************************************************************************)
(* C14.  Every device event watch_udev yields is consumed by one pass of   *)
(* the body of the loop of run(), and that pass starts at most one thread: *)
(* exactly one, with the event's properties and at its first step, when    *)
(* both ids are present and parse, none when an id is missing or does not  *)
(* parse; threads are started by such a pass only, whatever threads exist  *)
(* already (an event for a device path that already has a thread starts    *)
(* another one).                                                           *)
(***************************************************************************)
C14_EventConsumedOnce ==
  [][ /\ (loop = "body" /\ loop' /= "body") =>
           /\ Len(workers') = Len(workers) + (IF BothIdsParse(props) THEN 1 ELSE 0)
           /\ \A w \in Threads : workers'[w] = workers[w]
      /\ workers' /= workers /\ DOMAIN workers' /= Threads =>
           /\ loop = "body" /\ loop' = "watch"
           /\ Len(workers') = Len(workers) + 1
           /\ workers'[Len(workers')].k = props
           /\ workers'[Len(workers')].pc = "start"
           /\ workers'[Len(workers')].calls = <<>>
    ]_vars

\* C14 as first stated: every device event watch_udev yields starts
\* exactly one thread, never none.
C14_EveryEventStartsOneThread ==
  [][ (loop = "body" /\ loop' /= "body") => Len(workers') = Len(workers) + 1 ]_vars

\* Two threads for the same device, the second started for a hotplug
\* notification while the first, started from the snapshot, is running.
C14_Witness ==
  /\ Len(workers) = 2
  /\ workers[1].k = workers[2].k
  /\ Has(workers[1].k, "DEVNAME")
  /\ phase = "monitor"
  /\ Running(1) /\ workers[1].calls /= <<>>
  /\ workers[2].pc = "start"

(***************************************************************************)
(* C15.  When a call of detect_chip raised OSError, termios.error or       *)
(* SerialException, at whichever pass of the loop, the run has ended       *)
(* without an exception: that call is its last call but the closing of the *)
(* port, every detect_chip call before it was a miss, the one error logged *)
(* is the serial connection error, which carries that exception (so the    *)
(* exhaustion error is not logged), no call is made on the chip after      *)
(* detection, and the port is closed.                                      *)
(***************************************************************************)
IOFailures(r) ==
  { j \in CallsOf(r, "detect_chip") : r.calls[j].out \in IOClasses }

C15_FatalIOAbortsDetection ==
  \A w \in Threads :
    LET r == workers[w]
    IN (Bridge(r) /\ IOFailures(r) /= {}) =>
         /\ r.pc = "done" /\ r.raised = NoExc
         /\ Attempts(r) <= DEFAULT_CONNECT_ATTEMPTS
         /\ \A j \in IOFailures(r) :
              /\ j = Len(r.calls) - 1
              /\ j = Attempts(r) + 1
              /\ \A e \in LogsAt(r, ERROR) :
                   /\ r.log[e].msg = "Serial connection error for ESP device at %r: %s"
                   /\ r.log[e].exc = [cls |-> r.calls[j].out, at |-> j]
         /\ \A j \in CallsOf(r, "detect_chip") \ IOFailures(r) :
              r.calls[j].out \in MissClasses
         /\ Cardinality(LogsAt(r, ERROR)) = 1
         /\ ~Exhausted(r) /\ ~Succeeded(r)
         /\ Cardinality(LogsOf(r, WARNING,
              "Unable to detect ESP device at %r (%i/%i)")) = Attempts(r) - 1
         /\ \A j \in DOMAIN r.calls : r.calls[j].fn \notin PostDetection
         /\ r.calls[Len(r.calls)].fn = "close"
         /\ r.port = "closed"

\* Two misses, then termios.error at the third call of detect_chip.
C15_Witness ==
  \E w \in Threads :
    LET r == workers[w]
    IN /\ Bridge(r) /\ r.pc = "done"
       /\ Attempts(r) = 3
       /\ r.calls[2].out = "FatalError" /\ r.calls[3].out = "FatalError"
       /\ r.calls[4].out = "termios.error"
       /\ r.port = "closed"

(***************************************************************************)
(* C16.  In a run of handle_cp2105 every miss of detect_chip (FatalError)  *)
(* logs one warning, which carries the number of the pass counted from 1;  *)
(* the hint to hold BOOT and press EN is logged once in a run that missed  *)
(* and never in a run that did not, and it follows the warning of the      *)
(* first miss; while the loop runs, the loop index is the number of misses *)
(* so far, so index 0 and first miss are the same pass.                    *)
(***************************************************************************)
Misses(r) ==
  { j \in CallsOf(r, "detect_chip") : r.calls[j].out \in MissClasses }

MissWarnings(r) == LogsOf(r, WARNING, "Unable to detect ESP device at %r (%i/%i)")

Hints(r) ==
  LogsOf(r, INFO, "Hold down ESP BOOT button then press ESP EN to reset")

C16_HintOnFirstMissOnly ==
  \A w \in Threads :
    LET r == workers[w]
    IN Bridge(r) =>
         /\ Cardinality(MissWarnings(r)) = Cardinality(Misses(r))
         /\ \A j \in Misses(r) :
              \* calls[1] is serial_for_url: the miss at calls[j] is pass j - 1
              /\ \A x \in 2..j : x \in Misses(r)
              /\ \E e \in MissWarnings(r) :
                   /\ r.log[e].n = j - 1
                   /\ Cardinality({ x \in MissWarnings(r) : x <= e }) = j - 1
         /\ Cardinality(Hints(r)) = IF Misses(r) = {} THEN 0 ELSE 1
         /\ \A h \in Hints(r) :
              /\ h - 1 \in MissWarnings(r)
              /\ r.log[h - 1].n = 1
              /\ \A e \in MissWarnings(r) : e >= h - 1
         /\ r.pc = "detect" => r.i = Cardinality(Misses(r))

\* Three misses: three warnings, one hint.
C16_Witness ==
  \E w \in Threads :
    LET r == workers[w]
    IN /\ Bridge(r)
       /\ Cardinality(Misses(r)) = 3
       /\ Cardinality(Hints(r)) = 1

(***************************************************************************)
(* C17.  When run_stub raised FatalError or SerialException, the run has   *)
(* logged that as an error, followed by the line that the stub is running, *)
(* and goes on: its next call is change_baud, and change_baud and          *)
(* write_flash are made on the handle detect_chip returned, not on a stub  *)
(* handle; when the calls after run_stub all returned, the run ended with  *)
(* write_flash made once and a success line logged after the error.        *)
(***************************************************************************)
StubFailures(r) ==
  { j \in CallsOf(r, "run_stub") :
      r.calls[j].out \in {"FatalError", "SerialException"} }

StubErrors(r) == LogsOf(r, ERROR, "Unable to run stub on ESP at %r: %s")

ReadyToFlash(r) ==
  /\ Bridge(r) /\ r.pc = "done"
  /\ \E j \in CallsOf(r, "detect_chip") : r.calls[j].out = "ok"
  /\ \E j \in CallsOf(r, "run_stub") : r.calls[j].out = "ok"
  /\ \E j \in CallsOf(r, "change_baud") : r.calls[j].out = "ok"
  /\ \A j \in CallsOf(r, "open") : ~IsSubclass(r.calls[j].out, "OSError")

\* 0x1000, 32768 and 0x10000 as numbers.
ExpectedPairs ==
  { <<4096, "bootloader.bin">>, <<32768, "partition-table.bin">>,
    <<65536, IF ESP_IMAGE = None THEN "badge.bin" ELSE ESP_IMAGE>> }

C18_EveryImageFlashedOnce ==
  \A w \in Threads :
    LET r == workers[w]
    IN ReadyToFlash(r) =>
         /\ NCalls(r, "write_flash") = 1
         /\ Len(r.addr_fileobj_pairs) = Cardinality(ExpectedPairs)
         /\ { r.addr_fileobj_pairs[j] : j \in DOMAIN r.addr_fileobj_pairs } =
              ExpectedPairs

(***************************************************************************)
(* C19.  Whatever the interleaving, a thread's record (its locals, its     *)
(* port, its calls, its outcome) changes only in a step of that thread,    *)
(* and such a step changes nothing else: no other thread, nothing of the   *)
(* main thread.  A port goes from absent to open only by the thread's own  *)
(* serial_for_url and from open to closed only by the thread's own close,  *)
(* also when another thread holds a port for the same device path.         *)
(***************************************************************************)
OwnOpen(old, new) ==
  /\ old.port = "none" /\ new.port = "open"
  /\ new.calls = Append(old.calls, Call("serial_for_url", "DEVNAME", "ok", <<>>))

OwnClose(old, new) ==
  /\ old.port = "open" /\ new.port = "closed"
  /\ Len(new.calls) > Len(old.calls)
  /\ new.calls[Len(new.calls)] = Call("close", "port", "ok", <<>>)
  /\ new.pc = "done"

C19_PortOwnedByItsThread ==
  [][ \A w \in Threads :
        workers'[w] /= workers[w] =>
          /\ Running(w)
          /\ ThreadStep(w)
          /\ MainState' = MainState
          /\ DOMAIN workers' = Threads
          /\ \A v \in Threads \ {w} : workers'[v] = workers[v]
          /\ workers'[w].port /= workers[w].port =>
               OwnOpen(workers[w], workers'[w]) \/ OwnClose(workers[w], workers'[w])
    ]_vars

\* Two threads of handle_cp2105 for the same device path: the first has
\* ended and closed its port, the second still has its own open.
C19_Witness ==
  /\ Len(workers) = 2
  /\ Bridge(workers[1]) /\ Bridge(workers[2])
  /\ workers[1].k["DEVNAME"] = workers[2].k["DEVNAME"]
  /\ workers[1].pc = "done" /\ workers[1].port = "closed"
  /\ workers[2].pc = "detect" /\ workers[2].port = "open"

(***************************************************************************)
(* C20.  A thread of handle_arduino_prog, or of handle_cp2105 on interface *)
(* 0, whose properties have no DEVNAME makes no call at all (the flasher   *)
(* is not run, no port is opened, detect_chip is not called): it ends at   *)
(* its first step, without an exception, having logged one line, the error *)
(* that the device name could not be got.                                  *)
(***************************************************************************)
OnAcceptedInterface(r) ==
  /\ Has(r.k, "ID_USB_INTERFACE_NUM")
  /\ ParseInt(r.k["ID_USB_INTERFACE_NUM"], 10).ok
  /\ ParseInt(r.k["ID_USB_INTERFACE_NUM"], 10).val = 0

NoPath(r) ==
  /\ ~Has(r.k, "DEVNAME")
  /\ \/ r.handler = "handle_arduino_prog"
     \/ Bridge(r) /\ OnAcceptedInterface(r)

NoPathError(r) ==
  IF Bridge(r) THEN "Unable to get device name for CP2105 serial"
  ELSE "Unable to get device name for Arduino serial"

C20_NoPathNoAcquisition ==
  \A w \in Threads :
    LET r == workers[w]
    IN NoPath(r) =>
         /\ r.calls = <<>>
         /\ r.port = "none" /\ r.esp = "none"
         /\ r.raised = NoExc
         /\ r.pc \in {"start", "done"}
         /\ r.pc = "start" => r.log = <<>>
         /\ r.pc = "done" => r.log = << Log(ERROR, NoPathError(r)) >>

\* A thread of handle_cp2105 on interface 0 without DEVNAME that has ended.
C20_Witness ==
  \E w \in Threads :
    LET r == workers[w]
    IN /\ NoPath(r) /\ Bridge(r)
       /\ r.k["ID_USB_INTERFACE_NUM"] = <<"0", "0">>
       /\ r.pc = "done"
       /\ LogsAt(r, ERROR) /= {}

=============================================================================
